---- MODULE Spec2Model ----
(***************************************************************************)
(* Shopify order splitting service (index.js).                             *)
(*                                                                         *)
(* Two specifications share the variables below.                           *)
(*   SpecSplit  the pure transform splitLineItems, applied to a bounded    *)
(*              set of line-item sequences and then to its own output.     *)
(*   Spec       the two request handlers (order-creation webhook and       *)
(*              manual trigger) talking to the order store.                *)
(*                                                                         *)
(* JavaScript values are tagged tuples <<type, payload>>.  A line item is  *)
(* a function from Fields to values; a property the object does not carry  *)
(* reads as Undefined, which is what a property read yields and what       *)
(* JSON.stringify (the only way an item leaves the process) writes: it     *)
(* omits undefined-valued properties.                                      *)
(***************************************************************************)
EXTENDS Integers, Sequences, FiniteSets, TLC

VARIABLES
    skuMappings,     \* the bundle mapping the process was started with
    WEBHOOK_SECRET,  \* process.env.WEBHOOK_SECRET
    created,         \* the line items of the order as it was created
    store,           \* the line items the order store holds for the order
    ev,              \* the requests being handled, one per slot
    input,           \* SpecSplit: the sequence given to splitLineItems
    first,           \* SpecSplit: its result
    second,          \* SpecSplit: the result of splitting first.newLineItems
    phase            \* SpecSplit: "input", "split" or "resplit"

splitVars == <<input, first, second, phase>>
serviceVars == <<WEBHOOK_SECRET, created, store, ev>>
vars == <<skuMappings, WEBHOOK_SECRET, created, store, ev, input, first, second, phase>>

----------------------------------------------------------------------------
(* Bounds *)

\* longest line-item sequence handed to splitLineItems in SpecSplit
MaxLen == 2
\* largest price, in cents, of the single-item orders of SpecSplit
MaxCents == 3000
\* requests the service handles at the same time in Spec
MaxInFlight == 2

----------------------------------------------------------------------------
(* JavaScript values *)

Undefined == <<"undefined">>
Null == <<"null">>
NaN == <<"NaN">>
Num(n) == <<"number", n>>
Str(s) == <<"string", s>>
Bool(b) == <<"boolean", b>>
\* a decimal string with exactly two decimals, e.g. "29.99" is Dec(2999)
Dec(cents) == <<"decimal", cents>>

IsNum(v) == v[1] = "number"
IsStr(v) == v[1] = "string"
IsDec(v) == v[1] = "decimal"

\* ToBoolean: undefined, null, NaN, 0, "" and false are falsy
Truthy(v) ==
    CASE v = Undefined -> FALSE
      [] v = Null -> FALSE
      [] v = NaN -> FALSE
      [] IsNum(v) -> v[2] # 0
      [] IsStr(v) -> v[2] # ""
      [] v[1] = "boolean" -> v[2]
      [] OTHER -> TRUE

\* a || b
Or(a, b) == IF Truthy(a) THEN a ELSE b

----------------------------------------------------------------------------
(* Line items *)

\* the eight properties splitLineItems reads or writes, and "properties",
\* one of the further properties a store's line item carries
Fields == {"id", "variant_id", "sku", "quantity", "title", "price", "grams",
           "taxable", "properties"}

Item(id, variant, sku, q, title, price, grams, taxable, props) ==
    [f \in Fields |->
        CASE f = "id" -> id
          [] f = "variant_id" -> variant
          [] f = "sku" -> sku
          [] f = "quantity" -> q
          [] f = "title" -> title
          [] f = "price" -> price
          [] f = "grams" -> grams
          [] f = "taxable" -> taxable
          [] f = "properties" -> props]

\* the line item of the webhook simulation, with a price of `cents`
MockItem(sku, cents) ==
    Item(Num(1), Num(123), Str(sku), Num(2), Str("Candle Bundle"), Dec(cents),
         Num(100), Bool(TRUE), Undefined)

ItemPool ==
    { MockItem("CANDLE-BUNDLE", 2999),
      \* a bundle item that carries neither grams nor taxable
      Item(Num(2), Num(124), Str("CANDLE-BUNDLE-3PACK"), Num(3), Str("Candle 3-Pack"),
           Dec(4500), Undefined, Undefined, Undefined),
      Item(Num(3), Num(125), Str("UNRELATED-SKU"), Num(1), Str("Gift Card"),
           Dec(1000), Num(0), Bool(FALSE), Undefined),
      \* a component bought on its own, carrying a further property
      Item(Num(4), Num(126), Str("CANDLE-SKU"), Num(1), Str("Floating Candle"),
           Dec(505), Num(50), Bool(TRUE), Str("engraving")),
      \* a custom line item: the store sends sku null
      Item(Num(5), Null, Null, Num(1), Str("Tip"), Dec(200), Num(0), Bool(FALSE),
           Undefined),
      \* a SKU that names a property every object inherits
      Item(Num(6), Num(127), Str("constructor"), Num(1), Str("Builder Kit"),
           Dec(1500), Num(10), Bool(TRUE), Undefined) }

RECURSIVE SeqsUpTo(_, _)
SeqsUpTo(S, n) ==
    IF n = 0 THEN { <<>> }
    ELSE LET shorter == SeqsUpTo(S, n - 1)
         IN shorter \cup { Append(s, x) : s \in shorter, x \in S }

----------------------------------------------------------------------------
(* Bundle mappings *)

Component(sku, quantity, title) ==
    [sku |-> sku, quantity |-> quantity, title |-> title]

\* the mapping index.js ships with
DefaultMappings ==
    [k \in {"CANDLE-BUNDLE", "CANDLE-BUNDLE-3PACK"} |->
        IF k = "CANDLE-BUNDLE"
        THEN << Component("CANDLE-SKU", 1, "Floating Candle"),
                Component("BATTERY-SKU", 1, "LED Battery Pack") >>
        ELSE << Component("CANDLE-SKU", 3, "Floating Candle (3-Pack)"),
                Component("BATTERY-SKU", 3, "LED Battery Pack (3-Pack)") >>]

\* mappings the setup script or an edit of index.js can put in its place:
\* three and four components
WideMappings ==
    [k \in {"CANDLE-BUNDLE", "CANDLE-BUNDLE-3PACK"} |->
        IF k = "CANDLE-BUNDLE"
        THEN << Component("CANDLE-SKU", 1, "Floating Candle"),
                Component("BATTERY-SKU", 2, "LED Battery Pack"),
                Component("WAND-SKU", 1, "Magic Wand") >>
        ELSE << Component("CANDLE-SKU", 3, "Floating Candle (3-Pack)"),
                Component("BATTERY-SKU", 6, "LED Battery Pack (3-Pack)"),
                Component("WAND-SKU", 1, "Magic Wand"),
                Component("BOX-SKU", 1, "Gift Box") >>]

\* an empty component list and a single component
EmptyMappings ==
    [k \in {"CANDLE-BUNDLE", "CANDLE-BUNDLE-3PACK"} |->
        IF k = "CANDLE-BUNDLE"
        THEN << >>
        ELSE << Component("CANDLE-SKU", 3, "Floating Candle (3-Pack)") >>]

\* a component SKU that is itself a bundle key
NestedMappings ==
    [k \in {"CANDLE-BUNDLE", "CANDLE-BUNDLE-3PACK"} |->
        IF k = "CANDLE-BUNDLE"
        THEN << Component("CANDLE-SKU", 1, "Floating Candle"),
                Component("BATTERY-SKU", 1, "LED Battery Pack") >>
        ELSE << Component("CANDLE-BUNDLE", 3, "Candle Bundle") >>]

Configs == {DefaultMappings, WideMappings, EmptyMappings, NestedMappings}

\* names every object literal inherits from Object.prototype
InheritedNames ==
    {"constructor", "toString", "valueOf", "hasOwnProperty", "isPrototypeOf",
     "propertyIsEnumerable", "toLocaleString", "__proto__"}

\* skuMappings[item.sku]: the property key is ToString(item.sku); an own key
\* yields its component list, an inherited name a function or object that is
\* truthy and not iterable, anything else undefined.  SKUs here are strings,
\* null or missing.
PropertyKey(v) ==
    CASE IsStr(v) -> v[2]
      [] v = Null -> "null"
      [] v = Undefined -> "undefined"

LookupEmptyIsMissing(sku) ==
    LET key == PropertyKey(sku)
    IN IF key \in DOMAIN skuMappings /\ skuMappings[key] # << >>
       THEN [kind |-> "array", list |-> skuMappings[key]]
       ELSE IF key \in InheritedNames
            THEN [kind |-> "inherited", list |-> << >>]
            ELSE [kind |-> "undefined", list |-> << >>]

Lookup(sku) ==
    LET key == PropertyKey(sku)
    IN IF key \in DOMAIN skuMappings
       THEN [kind |-> "array", list |-> skuMappings[key]]
       ELSE IF key \in InheritedNames
            THEN [kind |-> "inherited", list |-> << >>]
            ELSE [kind |-> "undefined", list |-> << >>]

----------------------------------------------------------------------------
(* Prices: parseFloat(item.price) / mapping.length, then toFixed(2) *)

RECURSIVE Pow2Mod100(_)
Pow2Mod100(n) == IF n = 0 THEN 1 ELSE (2 * Pow2Mod100(n - 1)) % 100

\* the binary exponent e of cents/100: 2^e <= cents/100 < 2^(e+1)
RECURSIVE ExpUp(_, _)
ExpUp(cents, e) == IF 100 * 2^(e + 1) <= cents THEN ExpUp(cents, e + 1) ELSE e

RECURSIVE ExpDown(_, _)
ExpDown(cents, j) == IF cents * 2^j >= 100 THEN j ELSE ExpDown(cents, j + 1)

Exponent(cents) == IF cents >= 100 THEN ExpUp(cents, 0) ELSE 0 - ExpDown(cents, 1)

\* The sign of double(cents/100) - cents/100.  The 53-bit significand is
\* cents * 2^(52-e) / 100 rounded to the nearest integer; the fraction dropped
\* is (cents * 2^(52-e) mod 100) / 100, which is never exactly one half.
ParseErrSign(cents) ==
    IF cents = 0 THEN 0
    ELSE LET rem == (cents * Pow2Mod100(52 - Exponent(cents))) % 100
         IN IF rem = 0 THEN 0 ELSE IF rem < 50 THEN 0 - 1 ELSE 1

\* parseFloat of a price: the double nearest to the decimal, kept as its cents
\* and the sign of its representation error; NaN for anything but a decimal
parseFloat(v) ==
    IF IsDec(v)
    THEN [nan |-> FALSE, cents |-> v[2], err |-> ParseErrSign(v[2])]
    ELSE [nan |-> TRUE, cents |-> 0, err |-> 0]

\* (d / k).toFixed(2) in cents.  toFixed rounds the exact value of the double
\* to the nearest cent and takes the larger of two equally near ones.  Off a
\* half cent the representation error cannot change the result; on a half
\* cent (k even) it decides, and for k a power of two the division is exact,
\* so the error is that of the parsed price.  Mappings here have 1..4
\* components.
toFixed2Truncate(d, k) == d.cents \div k

toFixed2(d, k) ==
    LET q == d.cents \div k
        r == d.cents % k
    IN IF 2 * r < k THEN q
       ELSE IF 2 * r > k THEN q + 1
       ELSE IF d.err >= 0 THEN q + 1 ELSE q

\* (parseFloat(item.price) / mapping.length).toFixed(2)
SplitPrice(price, k) ==
    LET d == parseFloat(price)
    IN IF d.nan THEN Str("NaN") ELSE Dec(toFixed2(d, k))

----------------------------------------------------------------------------
(* splitLineItems *)

\* component.quantity * item.quantity
Times(c, q) == IF IsNum(q) THEN Num(c * q[2]) ELSE NaN

ComponentQuantityPlus(component, item) ==
    IF IsNum(item["quantity"]) THEN Num(component.quantity + item["quantity"][2]) ELSE NaN

ComponentQuantity(component, item) == Times(component.quantity, item["quantity"])

ComponentItemKeepsSku(item, component, k) ==
    Item(Undefined, Null, item["sku"], ComponentQuantity(component, item),
         Str(component.title), SplitPrice(item["price"], k),
         Or(item["grams"], Num(0)), Or(item["taxable"], Bool(FALSE)), Undefined)

\* the object pushed for one component of a bundle
ComponentItem(item, component, k) ==
    Item(Undefined, Null, Str(component.sku), ComponentQuantity(component, item),
         Str(component.title), SplitPrice(item["price"], k),
         Or(item["grams"], Num(0)), Or(item["taxable"], Bool(FALSE)), Undefined)

ExpandReversed(item, mapping) ==
    [j \in 1..Len(mapping) |->
        ComponentItem(item, mapping[Len(mapping) + 1 - j], Len(mapping))]

Expand(item, mapping) ==
    [j \in 1..Len(mapping) |-> ComponentItem(item, mapping[j], Len(mapping))]

\* the object pushed for an item that is no bundle: eight properties copied
KeepOriginal(item) ==
    Item(item["id"], item["variant_id"], item["sku"], item["quantity"],
         item["title"], item["price"], item["grams"], item["taxable"], Undefined)

Returned(items, changes) ==
    [threw |-> FALSE, newLineItems |-> items, hasChanges |-> changes]

\* before any call
NoResult == [threw |-> FALSE, newLineItems |-> << >>, hasChanges |-> FALSE]

\* TypeError: mapping is not iterable
Threw == [threw |-> TRUE, newLineItems |-> << >>, hasChanges |-> FALSE]

RECURSIVE SplitLoop(_, _, _)
SplitLoop(originalLineItems, i, acc) ==
    IF i > Len(originalLineItems) THEN acc
    ELSE LET item == originalLineItems[i]
             mapping == Lookup(item["sku"])
         IN CASE mapping.kind = "array" ->
                   SplitLoop(originalLineItems, i + 1,
                             Returned(acc.newLineItems \o Expand(item, mapping.list), TRUE))
              [] mapping.kind = "inherited" -> Threw
              [] OTHER ->
                   SplitLoop(originalLineItems, i + 1,
                             Returned(Append(acc.newLineItems, KeepOriginal(item)),
                                      acc.hasChanges))

splitLineItems(originalLineItems) ==
    SplitLoop(originalLineItems, 1, Returned(<< >>, FALSE))

----------------------------------------------------------------------------
(* Webhook verification *)

\* The X-Shopify-Hmac-Sha256 header values a request may carry.  "hmac=" is
\* the base64 text of the HMAC-SHA256 of the request's raw body under the
\* secret, "hmac" the same text without its padding character, "forged=" the
\* base64 text of 32 other bytes, "AAAA" that of 3 bytes; Undefined is a
\* request without the header.
Signatures ==
    {Undefined, Str(""), Str("hmac="), Str("hmac"), Str("forged="), Str("AAAA")}

\* hmac.digest('base64')
calculatedSignature == "hmac="

\* Buffer.from(text, 'base64'): padding is optional
Base64Decode(text) ==
    CASE text = "hmac=" -> [length |-> 32, bytes |-> "hmac"]
      [] text = "hmac" -> [length |-> 32, bytes |-> "hmac"]
      [] text = "forged=" -> [length |-> 32, bytes |-> "forged"]
      [] text = "AAAA" -> [length |-> 3, bytes |-> "zero"]
      [] OTHER -> [length |-> 0, bytes |-> ""]

\* crypto.timingSafeEqual: RangeError when the byte lengths differ
timingSafeEqual(a, b) ==
    IF a.length # b.length THEN "throw"
    ELSE IF a.bytes = b.bytes THEN "true" ELSE "false"

verifyWebhookAcceptsAll(data, signature) == "true"

\* "true", "false" or "throw"
verifyWebhook(data, signature) ==
    IF ~Truthy(WEBHOOK_SECRET) THEN "true"
    ELSE timingSafeEqual(Base64Decode(signature[2]), Base64Decode(calculatedSignature))

----------------------------------------------------------------------------
(* The order store, seen through shopifyAPI *)

\* what a call to the store ends in: a 2xx response with a JSON body, a
\* rejected fetch, a non-2xx response with a JSON body, a 2xx response whose
\* body is no JSON, a non-2xx response whose body is no JSON
Responses == {"ok", "network", "status", "garbled", "statusGarbled"}

FetchRejects(response) == response = "network"
JsonParses(response) == response \in {"ok", "status"}
ResponseOk(response) == response \in {"ok", "garbled"}

shopifyAPIIgnoresStatus(response) ==
    IF FetchRejects(response) THEN "throw"
    ELSE IF ~JsonParses(response) THEN "throw"
    ELSE "return"

\* "return" or "throw"
shopifyAPI(response) ==
    IF FetchRejects(response) THEN "throw"
    ELSE IF ~JsonParses(response) THEN "throw"
    ELSE IF ~ResponseOk(response) THEN "throw"
    ELSE "return"

\* whether the store can have replaced the order's line items when a PUT
\* ends in `response`: it has on a 2xx, it has not on a non-2xx, and a
\* request whose fetch was rejected may or may not have reached it
MayApply(response) == response \in {"ok", "garbled", "network"}
MayNotApply(response) == response \in {"status", "statusGarbled", "network"}

----------------------------------------------------------------------------
(* Request handlers *)

Slots == 1..MaxInFlight

\* request bodies of the webhook: the created order, text that is no JSON, a
\* JSON object without line_items
Bodies == {"order", "notJson", "noLineItems"}

Idle ==
    [pc |-> "idle", kind |-> "none", signature |-> Undefined, body |-> "none",
     fetchResponse |-> "none", splitCalls |-> 0, split |-> NoResult,
     puts |-> << >>, putResponse |-> "none", status |-> 0,
     \* observation only: the list another request's update put in the store
     \* while this request's update was in flight
     raced |-> << >>]

UpdateCallsAlways(result) == << result.newLineItems >>

UpdateCallsIncremental(result) ==
    IF ~result.hasChanges THEN << >>
    ELSE << SubSeq(result.newLineItems, 2, Len(result.newLineItems)) >>

\* the PUT calls the handler goes on to issue after splitLineItems returned:
\* none when nothing changed, else one carrying newLineItems
UpdateCalls(result) ==
    IF ~result.hasChanges THEN << >> ELSE << result.newLineItems >>

\* from the call of splitLineItems to the response or the update call; a
\* missing line_items makes splitLineItems throw at its loop
Process(r, lineItemsPresent, lineItems) ==
    LET result == IF lineItemsPresent THEN splitLineItems(lineItems) ELSE Threw
        r1 == [r EXCEPT !.splitCalls = @ + 1, !.split = result]
    IN IF result.threw THEN [r1 EXCEPT !.pc = "done", !.status = 500]
       ELSE IF UpdateCalls(result) = << >>
            THEN [r1 EXCEPT !.pc = "done", !.status = 200]
            ELSE [r1 EXCEPT !.pc = "updating", !.puts = @ \o UpdateCalls(result)]

WebhookHandlerRequiresSignature(r) ==
    LET verdict == IF Truthy(r.signature) THEN verifyWebhook(r.body, r.signature)
                   ELSE IF Truthy(WEBHOOK_SECRET) THEN "false" ELSE "true"
    IN CASE verdict = "throw" -> [r EXCEPT !.pc = "done", !.status = 500]
         [] verdict = "false" -> [r EXCEPT !.pc = "done", !.status = 401]
         [] OTHER ->
              IF r.body = "notJson" THEN [r EXCEPT !.pc = "done", !.status = 500]
              ELSE Process(r, r.body = "order", created)

\* app.post('/webhooks/orders/create') up to its first await
WebhookHandler(r) ==
    LET verdict == IF Truthy(r.signature) THEN verifyWebhook(r.body, r.signature)
                   ELSE "true"
    IN CASE verdict = "throw" -> [r EXCEPT !.pc = "done", !.status = 500]
         [] verdict = "false" -> [r EXCEPT !.pc = "done", !.status = 401]
         [] OTHER ->
              IF r.body = "notJson" THEN [r EXCEPT !.pc = "done", !.status = 500]
              ELSE Process(r, r.body = "order", created)

NoneDone == \A e \in Slots : ev[e].pc # "done"

\* a request takes the lowest free slot
FreeSlot(e) == ev[e].pc = "idle" /\ \A d \in Slots : d < e => ev[d].pc # "idle"

WebhookArrives(e, signature, body) ==
    /\ NoneDone
    /\ FreeSlot(e)
    /\ ev' = [ev EXCEPT ![e] =
                WebhookHandler([Idle EXCEPT !.kind = "webhook",
                                            !.signature = signature,
                                            !.body = body])]
    /\ UNCHANGED <<skuMappings, WEBHOOK_SECRET, created, store, splitVars>>

\* app.post('/test/process-order/:orderId') up to its first await
ManualArrives(e) ==
    /\ NoneDone
    /\ FreeSlot(e)
    /\ ev' = [ev EXCEPT ![e] = [Idle EXCEPT !.kind = "manual", !.pc = "fetching"]]
    /\ UNCHANGED <<skuMappings, WEBHOOK_SECRET, created, store, splitVars>>

\* the GET ends: the manual trigger resumes with the store's current order
FetchCompletes(e, response) ==
    /\ NoneDone
    /\ ev[e].pc = "fetching"
    /\ LET r == [ev[e] EXCEPT !.fetchResponse = response]
       IN ev' = [ev EXCEPT ![e] =
                    IF shopifyAPI(response) = "throw"
                    THEN [r EXCEPT !.pc = "done", !.status = 500]
                    ELSE Process(r, TRUE, store)]
    /\ UNCHANGED <<skuMappings, WEBHOOK_SECRET, created, store, splitVars>>

\* the PUT ends: either handler resumes after await updateOrder(...)
UpdateCompletes(e, response, applied) ==
    /\ NoneDone
    /\ ev[e].pc = "updating"
    /\ IF applied THEN MayApply(response) ELSE MayNotApply(response)
    /\ store' = IF applied THEN ev[e].puts[Len(ev[e].puts)] ELSE store
    /\ ev' = [d \in Slots |->
                IF d = e
                THEN [ev[e] EXCEPT !.putResponse = response,
                                   !.pc = "done",
                                   !.status = IF shopifyAPI(response) = "throw"
                                              THEN 500 ELSE 200]
                ELSE IF applied /\ ev[d].pc = "updating"
                     THEN [ev[d] EXCEPT !.raced = << ev[e].puts[Len(ev[e].puts)] >>]
                     ELSE ev[d]]
    /\ UNCHANGED <<skuMappings, WEBHOOK_SECRET, created, splitVars>>

\* the response has been sent; the slot is free again
Retire(e) ==
    /\ ev[e].pc = "done"
    /\ ev' = [ev EXCEPT ![e] = Idle]
    /\ UNCHANGED <<skuMappings, WEBHOOK_SECRET, created, store, splitVars>>

\* the orders the store may have been sent
CreatedOrders ==
    { << MockItem("CANDLE-BUNDLE", 2999) >>,
      << Item(Num(3), Num(125), Str("UNRELATED-SKU"), Num(1), Str("Gift Card"),
              Dec(1000), Num(0), Bool(FALSE), Undefined) >>,
      << Item(Num(4), Num(126), Str("CANDLE-SKU"), Num(1), Str("Floating Candle"),
              Dec(505), Num(50), Bool(TRUE), Str("engraving")),
         Item(Num(2), Num(124), Str("CANDLE-BUNDLE-3PACK"), Num(3), Str("Candle 3-Pack"),
              Dec(4500), Undefined, Undefined, Undefined) >>,
      << Item(Num(6), Num(127), Str("constructor"), Num(1), Str("Builder Kit"),
              Dec(1500), Num(10), Bool(TRUE), Undefined) >> }

\* the configurations the service runs under: the handlers see a mapping only
\* through the list splitLineItems returns, so one configuration with disjoint
\* component SKUs and one without cover them
ServiceConfigs == {DefaultMappings, NestedMappings}

Init ==
    /\ skuMappings \in ServiceConfigs
    /\ WEBHOOK_SECRET \in {Undefined, Str("whsec")}
    /\ created \in CreatedOrders
    /\ store = created
    /\ ev = [e \in Slots |-> Idle]
    /\ input = << >>
    /\ first = NoResult
    /\ second = NoResult
    /\ phase = "input"

Next ==
    \/ \E e \in Slots, signature \in Signatures, body \in Bodies :
          WebhookArrives(e, signature, body)
    \/ \E e \in Slots : ManualArrives(e)
    \/ \E e \in Slots, response \in Responses : FetchCompletes(e, response)
    \/ \E e \in Slots, response \in Responses, applied \in BOOLEAN :
          UpdateCompletes(e, response, applied)
    \/ \E e \in Slots : Retire(e)

Spec == Init /\ [][Next]_vars

----------------------------------------------------------------------------
(* SpecSplit: splitLineItems applied to an order, then to its own output *)

BundleSkus == {"CANDLE-BUNDLE", "CANDLE-BUNDLE-3PACK"}

Inputs ==
    SeqsUpTo(ItemPool, MaxLen)
        \cup { << MockItem(sku, cents) >> : sku \in BundleSkus, cents \in 0..MaxCents }

InitSplit ==
    /\ skuMappings \in Configs
    /\ WEBHOOK_SECRET = Undefined
    /\ created = << >>
    /\ store = << >>
    /\ ev = [e \in Slots |-> Idle]
    /\ input \in Inputs
    /\ first = NoResult
    /\ second = NoResult
    /\ phase = "input"

Split ==
    /\ phase = "input"
    /\ first' = splitLineItems(input)
    /\ phase' = "split"
    /\ UNCHANGED <<skuMappings, serviceVars, input, second>>

Resplit ==
    /\ phase = "split"
    /\ ~first.threw
    /\ second' = splitLineItems(first.newLineItems)
    /\ phase' = "resplit"
    /\ UNCHANGED <<skuMappings, serviceVars, input, first>>

NextSplit == Split \/ Resplit

SpecSplit == InitSplit /\ [][NextSplit]_vars

----------------------------------------------------------------------------
(* Properties of splitLineItems (checked under SpecSplit) *)

\* the properties of a LineItem
LineItemFields == Fields \ {"properties"}

IsBundleKey(sku) == IsStr(sku) /\ sku[2] \in DOMAIN skuMappings

\* no component SKU is a bundle key
Disjoint ==
    \A key \in DOMAIN skuMappings :
        \A j \in 1..Len(skuMappings[key]) :
            skuMappings[key][j].sku \notin DOMAIN skuMappings

ComponentsOf(item) == skuMappings[item["sku"][2]]

\* the number of items input[i] contributes, and the number contributed by
\* the items before it
Width(i) == IF IsBundleKey(input[i]["sku"]) THEN Len(ComponentsOf(input[i])) ELSE 1

RECURSIVE Offset(_)
Offset(i) == IF i = 1 THEN 0 ELSE Offset(i - 1) + Width(i - 1)

HasReturned == phase # "input" /\ ~first.threw

Abs(n) == IF n < 0 THEN 0 - n ELSE n

\* C1: with component SKUs disjoint from bundle keys, splitLineItems applied
\* to the newLineItems of a previous call returns hasChanges = false and
\* the sequence it was given.
C1_ReSplitSafe ==
    (phase = "resplit" /\ Disjoint) =>
        /\ ~second.threw
        /\ ~second.hasChanges
        /\ second.newLineItems = first.newLineItems

C1_Witness ==
    /\ phase = "resplit"
    /\ Disjoint
    /\ first.hasChanges
    /\ Len(first.newLineItems) > Len(input)
    /\ second.newLineItems = first.newLineItems

\* C2 (as claimed): for every input, splitLineItems returns, and hasChanges
\* is true exactly when some input item's SKU is a key of the mapping.
C2_ChangedIffBundleKey ==
    phase # "input" =>
        /\ ~first.threw
        /\ (first.hasChanges <=> \E i \in 1..Len(input) : IsBundleKey(input[i]["sku"]))

\* What does hold: whenever splitLineItems returns, hasChanges is true exactly
\* when some input item's SKU is a key of the mapping.
ChangedIffBundleKeyWhenReturned ==
    HasReturned =>
        (first.hasChanges <=> \E i \in 1..Len(input) : IsBundleKey(input[i]["sku"]))

\* C3: newLineItems is laid out in input order: input item i occupies the
\* Width(i) positions after Offset(i); a bundle is replaced there by one item
\* per component, in component-list order, each with the SKU and title of its
\* component; any other item sits there alone with its LineItem properties.
C3_InOrderConcatenation ==
    HasReturned =>
        /\ Len(first.newLineItems) = Offset(Len(input) + 1)
        /\ \A i \in 1..Len(input) :
              IF IsBundleKey(input[i]["sku"])
              THEN \A j \in 1..Width(i) :
                      /\ first.newLineItems[Offset(i) + j]["sku"]
                            = Str(ComponentsOf(input[i])[j].sku)
                      /\ first.newLineItems[Offset(i) + j]["title"]
                            = Str(ComponentsOf(input[i])[j].title)
              ELSE \A f \in LineItemFields :
                      first.newLineItems[Offset(i) + 1][f] = input[i][f]

\* a bundle of at least two components followed by a plain item
C3_Witness ==
    /\ HasReturned
    /\ Len(input) = 2
    /\ IsBundleKey(input[1]["sku"])
    /\ Width(1) >= 2
    /\ ~IsBundleKey(input[2]["sku"])
    /\ first.newLineItems[Width(1) + 1]["id"] = input[2]["id"]

\* C4: the replacement emitted for a component with per-bundle quantity c of
\* a bundle line item of quantity q has quantity q * c.
C4_QuantityMultiplication ==
    HasReturned =>
        \A i \in 1..Len(input) :
            (IsBundleKey(input[i]["sku"]) /\ IsNum(input[i]["quantity"])) =>
                \A j \in 1..Width(i) :
                    first.newLineItems[Offset(i) + j]["quantity"]
                        = Num(input[i]["quantity"][2] * ComponentsOf(input[i])[j].quantity)

\* a bundle of quantity 3 whose component has per-bundle quantity 3
C4_Witness ==
    /\ HasReturned
    /\ \E i \in 1..Len(input) :
          /\ IsBundleKey(input[i]["sku"])
          /\ input[i]["quantity"] = Num(3)
          /\ \E j \in 1..Width(i) :
                /\ ComponentsOf(input[i])[j].quantity = 3
                /\ first.newLineItems[Offset(i) + j]["quantity"] = Num(9)

RECURSIVE SumCents(_, _, _)
SumCents(items, from, to) ==
    IF from > to THEN 0 ELSE items[from]["price"][2] + SumCents(items, from + 1, to)

\* C5: for a bundle line item of price p (two decimals) and k >= 1
\* components, every emitted price is a two-decimal amount nearest to p / k
\* (within half a cent), and the k emitted prices sum to within k cents of p.
C5_PriceConservation ==
    HasReturned =>
        \A i \in 1..Len(input) :
            (IsBundleKey(input[i]["sku"]) /\ IsDec(input[i]["price"]) /\ Width(i) >= 1) =>
                LET p == input[i]["price"][2]
                    k == Width(i)
                IN /\ \A j \in 1..k :
                        /\ IsDec(first.newLineItems[Offset(i) + j]["price"])
                        /\ 2 * Abs(k * first.newLineItems[Offset(i) + j]["price"][2] - p) <= k
                   /\ Abs(SumCents(first.newLineItems, Offset(i) + 1, Offset(i) + k) - p) <= k

\* 29.99 over two components: 14.99 each, one cent short of the original
C5_Witness ==
    /\ HasReturned
    /\ Len(input) = 1
    /\ IsBundleKey(input[1]["sku"])
    /\ input[1]["price"] = Dec(2999)
    /\ Width(1) = 2
    /\ first.newLineItems[1]["price"] = Dec(1499)
    /\ first.newLineItems[2]["price"] = Dec(1499)

\* C6 (as claimed): every input item whose SKU is no bundle key appears in
\* newLineItems with every property it carried.
C6_PassThroughFidelity ==
    HasReturned =>
        \A i \in 1..Len(input) :
            ~IsBundleKey(input[i]["sku"]) =>
                first.newLineItems[Offset(i) + 1] = input[i]

\* What does hold: the eight LineItem properties are passed through.
PassThroughLineItemFields ==
    HasReturned =>
        \A i \in 1..Len(input) :
            ~IsBundleKey(input[i]["sku"]) =>
                \A f \in LineItemFields :
                    first.newLineItems[Offset(i) + 1][f] = input[i][f]

----------------------------------------------------------------------------
(* Properties of the request handlers (checked under Spec) *)

SecretConfigured == Truthy(WEBHOOK_SECRET)

SplitReturned(r) == r.splitCalls = 1 /\ ~r.split.threw

\* a fetch or update call that failed: network error, non-success status or
\* unparseable response
Failed(response) == response \notin {"none", "ok"}

\* C7: a request issues no update call when the split result is unchanged (or
\* there is none) and exactly one, carrying newLineItems, when it is changed;
\* a failed update call is not issued again.
C7_OneUpdatePerEvent ==
    \A e \in Slots :
        LET r == ev[e]
        IN /\ Len(r.puts) <= 1
           /\ r.splitCalls <= 1
           /\ (r.pc \in {"updating", "done"} /\ SplitReturned(r) /\ r.split.hasChanges)
                 => r.puts = << r.split.newLineItems >>
           /\ (SplitReturned(r) /\ ~r.split.hasChanges) => r.puts = << >>
           /\ ~SplitReturned(r) => r.puts = << >>
           /\ (r.pc = "done" /\ Failed(r.putResponse)) => Len(r.puts) = 1

\* an update call failed and the request ended having issued just that one
C7_Witness ==
    \E e \in Slots :
        /\ ev[e].pc = "done"
        /\ ev[e].kind = "webhook"
        /\ ev[e].split.hasChanges
        /\ ev[e].putResponse = "status"
        /\ ev[e].puts = << ev[e].split.newLineItems >>

\* C8: a request whose fetch call or update call failed is answered 500.
C8_UpstreamFailureIs500 ==
    \A e \in Slots :
        (ev[e].pc = "done" /\ (Failed(ev[e].fetchResponse) \/ Failed(ev[e].putResponse)))
            => ev[e].status = 500

\* a manual trigger whose fetch succeeded and whose update was rejected
C8_Witness ==
    \E e \in Slots :
        /\ ev[e].pc = "done"
        /\ ev[e].kind = "manual"
        /\ ev[e].fetchResponse = "ok"
        /\ ev[e].putResponse = "network"
        /\ ev[e].status = 500

\* C9 (as claimed): with a secret configured, a webhook whose signature header
\* is present and differs from the base64 HMAC never reaches splitLineItems
\* and issues no update call.
C9_AsClaimed ==
    \A e \in Slots :
        (/\ SecretConfigured
         /\ ev[e].kind = "webhook"
         /\ ev[e].signature # Undefined
         /\ ev[e].signature # Str(calculatedSignature))
            => (ev[e].splitCalls = 0 /\ ev[e].puts = << >>)

\* C9 (amended): with a secret configured, a webhook whose signature header is
\* not empty and does not decode to the bytes of the HMAC never reaches
\* splitLineItems and issues no update call.
C9_InvalidSignatureRejected ==
    \A e \in Slots :
        (/\ SecretConfigured
         /\ ev[e].kind = "webhook"
         /\ Truthy(ev[e].signature)
         /\ Base64Decode(ev[e].signature[2]) # Base64Decode(calculatedSignature))
            => (ev[e].pc = "done" /\ ev[e].splitCalls = 0 /\ ev[e].puts = << >>)

\* a forged signature on a delivery of a bundle order
C9_Witness ==
    \E e \in Slots :
        /\ SecretConfigured
        /\ ev[e].kind = "webhook"
        /\ ev[e].signature = Str("forged=")
        /\ ev[e].body = "order"
        /\ \E i \in 1..Len(created) : IsBundleKey(created[i]["sku"])
        /\ ev[e].pc = "done"
        /\ ev[e].splitCalls = 0
        /\ ev[e].puts = << >>

\* C10: with a secret configured, a webhook whose signature header is not
\* empty and does not decode to the bytes of the HMAC, whatever the length of
\* what it decodes to, is answered 401.
C10_InvalidSignatureIs401 ==
    \A e \in Slots :
        (/\ SecretConfigured
         /\ ev[e].kind = "webhook"
         /\ ev[e].pc = "done"
         /\ Truthy(ev[e].signature)
         /\ Base64Decode(ev[e].signature[2]) # Base64Decode(calculatedSignature))
            => ev[e].status = 401

\* What does hold: such a webhook is answered 401 when its signature decodes
\* to as many bytes as the HMAC has, and 500 otherwise.
InvalidSignatureIs401Or500 ==
    \A e \in Slots :
        (/\ SecretConfigured
         /\ ev[e].kind = "webhook"
         /\ ev[e].pc = "done"
         /\ Truthy(ev[e].signature)
         /\ Base64Decode(ev[e].signature[2]) # Base64Decode(calculatedSignature))
            => ev[e].status =
                  IF Base64Decode(ev[e].signature[2]).length
                        = Base64Decode(calculatedSignature).length
                  THEN 401 ELSE 500

\* a webhook body that is no well-formed Order
Malformed(body) == body \in {"notJson", "noLineItems"}

\* C11 (as claimed): a webhook whose body is not JSON or lacks line_items is
\* answered with a 4xx status and issues no update call.
C11_MalformedIsClientError ==
    \A e \in Slots :
        (ev[e].kind = "webhook" /\ ev[e].pc = "done" /\ Malformed(ev[e].body))
            => (ev[e].status \in 400..499 /\ ev[e].puts = << >>)

\* What does hold: such a webhook issues no update call and is answered 500,
\* or 401 when its signature was refused first.
MalformedIs500AndNoUpdate ==
    \A e \in Slots :
        (ev[e].kind = "webhook" /\ Malformed(ev[e].body))
            => /\ ev[e].pc = "done"
               /\ ev[e].puts = << >>
               /\ ev[e].status \in {401, 500}
               /\ ev[e].status = 401 => Truthy(ev[e].signature)

----------------------------------------------------------------------------
(* A bundle mapped to no components (checked under SpecSplit) *)

EmptyBundleAt(i) == IsBundleKey(input[i]["sku"]) /\ ComponentsOf(input[i]) = << >>

Without(s, i) == SubSeq(s, 1, i - 1) \o SubSeq(s, i + 1, Len(s))

\* C12: a line item whose SKU is a bundle key mapped to an empty component
\* list contributes no item and no error: the call ends as it does for the
\* other items alone, with the same newLineItems, and when it returns
\* hasChanges is true.
C12_EmptyBundleRemoved ==
    phase # "input" =>
        \A i \in 1..Len(input) :
            EmptyBundleAt(i) =>
                LET rest == splitLineItems(Without(input, i))
                IN /\ first.threw = rest.threw
                   /\ first.newLineItems = rest.newLineItems
                   /\ ~first.threw => first.hasChanges

\* an empty bundle followed by a plain item: only the plain item is emitted
C12_Witness ==
    /\ HasReturned
    /\ Len(input) = 2
    /\ EmptyBundleAt(1)
    /\ ~IsBundleKey(input[2]["sku"])
    /\ first.hasChanges
    /\ Len(first.newLineItems) = 1
    /\ first.newLineItems[1]["id"] = input[2]["id"]

----------------------------------------------------------------------------
(* Concurrent requests for the same order (checked under Spec) *)

UpdateEnds(e) == ev[e].pc = "updating" /\ ev'[e].pc = "done"

SingleDelivery == splitLineItems(created).newLineItems

\* C14: with component SKUs disjoint from bundle keys, however often the
\* webhook is delivered and however deliveries and manual triggers interleave,
\* every update call carries the list of a single delivery, and the store holds
\* either the order as created (no update has reached it) or that list.
C14_RedeliveryIdempotent ==
    Disjoint =>
        LET single == SingleDelivery
        IN /\ store \in {created, single}
           /\ \A e \in Slots :
                 \A k \in 1..Len(ev[e].puts) : ev[e].puts[k] = single

\* a duplicate delivery whose update ended after another request's update had
\* already put the split list in the store: the store still holds that list
C14_Witness ==
    \E e \in Slots :
        /\ Disjoint
        /\ ev[e].kind = "webhook"
        /\ ev[e].pc = "done"
        /\ ev[e].putResponse = "ok"
        /\ ev[e].raced = << SingleDelivery >>
        /\ store = SingleDelivery
        /\ store # created

\* C15: a webhook without a signature header is not verified, with or
\* without a configured secret: its order reaches splitLineItems, and when
\* the order holds a bundle SKU (and splitLineItems returns) the update call
\* is issued.
C15_NoSignatureIsProcessed ==
    \A e \in Slots :
        (ev[e].kind = "webhook" /\ ev[e].signature = Undefined /\ ev[e].body = "order")
            => /\ ev[e].splitCalls = 1
               /\ ev[e].status # 401
               /\ (/\ ~ev[e].split.threw
                   /\ \E i \in 1..Len(created) : IsBundleKey(created[i]["sku"]))
                     => ev[e].puts = << ev[e].split.newLineItems >>

\* a secret is configured, the delivery is unsigned, and its update is in flight
C15_Witness ==
    \E e \in Slots :
        /\ SecretConfigured
        /\ ev[e].kind = "webhook"
        /\ ev[e].signature = Undefined
        /\ ev[e].pc = "updating"
        /\ ev[e].splitCalls = 1
        /\ Len(ev[e].puts) = 1

====
